---------------------------- MODULE Spec2Model ----------------------------
(***************************************************************************)
(* A model of vhum v3 (src/v3/vhum.js): the Vhum engine's gesture capture  *)
(* state machine (DOM listeners, handleEntry / handleStart / handleMove /  *)
(* handleEnd), finalize with the feature extractors and the perceptron,    *)
(* and InputTypeDetector.detect.                                           *)
(*                                                                         *)
(* Numbers.  JavaScript doubles are modelled in fixed point:               *)
(*   - timestamps and durations are whole milliseconds;                    *)
(*   - coordinates are whole pixels;                                       *)
(*   - scores, ratios and feature values are in units of 1/SCALE;          *)
(*   - the raw score z and the probability are in units of 1/PPM.          *)
(* NaN and undefined are the two sentinels NaN and Undefined (negative,    *)
(* while every modelled quantity they can stand in for is >= 0).           *)
(***************************************************************************)
EXTENDS Integers, Sequences, FiniteSets, TLC

(***************************************************************************)
(* Bounds of the model.                                                    *)
(***************************************************************************)
\* the clock (performance.now()) stops advancing at MaxNow milliseconds
MaxNow == 300
\* a gesture is followed up to MaxPoints samples
MaxPoints == 2
\* longest Point Stream handed to InputTypeDetector.detect on its own
MaxDetectLen == 11

\* steps by which the clock advances between two events
TickSteps == {100}
\* positions (clientX, clientY) an event may carry
Positions == { [x |-> 0, y |-> 0], [x |-> 30, y |-> 40] }
\* positions a release or cancel event may carry (handleEnd does not read them)
ReleasePositions == { [x |-> 0, y |-> 0] }
\* pointerType of a pointer event
PointerTypes == {"mouse", "touch", "pen"}

\* the time after a touch gesture during which the HumanVerifier takes no mouse press
BLOCK_DURATION == 300
\* the moveSampleRate of a HumanVerifier constructed without one
DefaultSampleRate == 5

(***************************************************************************)
(* Fixed point.                                                            *)
(***************************************************************************)
SCALE == 10000
PPM == 100 * SCALE
NaN == -1
Undefined == -2

Abs(a) == IF a < 0 THEN -a ELSE a
Max(a, b) == IF a > b THEN a ELSE b
Min(a, b) == IF a < b THEN a ELSE b
\* Math.max(0, Math.min(1, v)) in units of 1/SCALE
Clamp01(v) == Max(0, Min(SCALE, v))
\* a / b rounded to the nearest integer (b > 0)
DivRound(a, b) == IF a >= 0 THEN (2 * a + b) \div (2 * b) ELSE -((2 * (-a) + b) \div (2 * b))

RECURSIVE IsqrtIter(_, _, _)
IsqrtIter(n, lo, hi) ==
    IF lo >= hi THEN lo
    ELSE LET mid == (lo + hi + 1) \div 2
         IN  IF mid * mid <= n THEN IsqrtIter(n, mid, hi) ELSE IsqrtIter(n, lo, mid - 1)
\* floor(Math.sqrt(n)) for 0 <= n < 2^31
Isqrt(n) == IsqrtIter(n, 0, 46340)
\* Math.hypot(dx, dy) in units of 1/100 pixel
Hypot100(dx, dy) == Isqrt((dx * dx + dy * dy) * 10000)

RECURSIVE SumRange(_, _, _)
\* s[lo] + ... + s[hi], by halves
SumRange(s, lo, hi) ==
    IF lo > hi THEN 0
    ELSE IF lo = hi THEN s[lo]
    ELSE SumRange(s, lo, (lo + hi) \div 2) + SumRange(s, (lo + hi) \div 2 + 1, hi)
\* the sum of a sequence; the sequence is evaluated once, then summed
SumSeq(s) == CHOOSE r \in { SumRange(v, 1, Len(v)) : v \in {s} } : TRUE
RECURSIVE MaxRange(_, _, _)
\* the greatest of s[lo], ..., s[hi], by halves
MaxRange(s, lo, hi) ==
    IF lo = hi THEN s[lo]
    ELSE Max(MaxRange(s, lo, (lo + hi) \div 2), MaxRange(s, (lo + hi) \div 2 + 1, hi))
MaxSeq(s) == CHOOSE r \in { MaxRange(v, 1, Len(v)) : v \in {s} } : TRUE
SeqMap(Op(_), s) == [i \in 1..Len(s) |-> Op(s[i])]

RECURSIVE Log2Frac(_, _, _)
\* the fractional bits of log2(m / 2^14) for 2^14 <= m < 2^15, by repeated squaring
Log2Frac(m, k, acc) ==
    IF k = 0 THEN acc
    ELSE LET m2 == (m * m) \div 16384
         IN  IF m2 >= 32768 THEN Log2Frac(m2 \div 2, k - 1, 2 * acc + 1)
                            ELSE Log2Frac(m2, k - 1, 2 * acc)
RECURSIVE Log2Norm(_, _, _)
\* log2(num / den) in units of 1/SCALE, with e the exponent taken out so far
Log2Norm(num, den, e) ==
    IF num >= 2 * den THEN Log2Norm(num, 2 * den, e + 1)
    ELSE IF num < den THEN Log2Norm(2 * num, den, e - 1)
    ELSE e * SCALE + (Log2Frac((num * 16384) \div den, 14, 0) * SCALE) \div 16384
\* Math.log2(num / den) in units of 1/SCALE (num, den > 0)
Log2Fx(num, den) == Log2Norm(num, den, 0)

\* a * b / PPM for 0 <= a, b <= 2 * PPM
MulPPM(a, b) == ((a \div 1000) * b) \div 1000 + ((a % 1000) * b) \div PPM
RECURSIVE ExpTaylor(_, _, _, _)
\* sum of the Taylor series of e^(-f) from term k on, 0 <= f < PPM, in units of 1/PPM
ExpTaylor(f, k, term, sign) ==
    IF term = 0 \/ k > 14 THEN 0
    ELSE sign * term + ExpTaylor(f, k + 1, MulPPM(term, f) \div (k + 1), -sign)
\* e^(-n) for whole n, in units of 1/PPM
ExpNegInt(n) ==
    IF n > 14 THEN 0
    ELSE << 1000000, 367879, 135335, 49787, 18316, 6738, 2479, 912,
            335, 123, 45, 17, 6, 2, 1 >>[n + 1]
\* Math.exp(-z) for z >= 0, z and the result in units of 1/PPM
ExpNeg(z) == MulPPM(ExpTaylor(z % PPM, 0, PPM, 1), ExpNegInt(z \div PPM))

(***************************************************************************)
(* AdaptivePerceptron: two fixed weight presets, weights in units of 1/100 *)
(* and the bias in units of 1/PPM.                                         *)
(***************************************************************************)
FeatureNames == {"fitts", "temporal", "decision", "jitter", "dwell",
                 "speed", "accel", "curvature", "entropy", "pauses"}
\* the presets with the fault of a negative entropy weight
WeightsEntropyNegative(type) ==
    IF type = "touch"
    THEN [fitts |-> 160, temporal |-> 130, decision |-> 170, jitter |-> 35, dwell |-> 75,
          speed |-> 35, accel |-> 40, curvature |-> 25, entropy |-> -20, pauses |-> 100]
    ELSE [fitts |-> 220, temporal |-> 210, decision |-> 230, jitter |-> 90, dwell |-> 140,
          speed |-> 50, accel |-> 60, curvature |-> 40, entropy |-> -30, pauses |-> 170]
\* AdaptivePerceptron._initializeWeights
Weights(type) ==
    IF type = "touch"
    THEN [fitts |-> 160, temporal |-> 130, decision |-> 170, jitter |-> 35, dwell |-> 75,
          speed |-> 35, accel |-> 40, curvature |-> 25, entropy |-> 20, pauses |-> 100]
    ELSE [fitts |-> 220, temporal |-> 210, decision |-> 230, jitter |-> 90, dwell |-> 140,
          speed |-> 50, accel |-> 60, curvature |-> 40, entropy |-> 30, pauses |-> 170]
Bias(type) == IF type = "touch" THEN -2600000 ELSE -3200000

\* PPM * PPM / q for PPM <= q <= 2 * PPM, by long division
PPMSquaredOver(q) == ((PPM * 1000) \div q) * 1000 + (((PPM * 1000) % q) * 1000) \div q
\* AdaptivePerceptron.sigmoid: 1 / (1 + Math.exp(-clamp(z, -100, 100)))
sigmoid(z) ==
    LET zc == Max(-100 * PPM, Min(100 * PPM, z))
    IN  IF zc >= 0 THEN PPMSquaredOver(PPM + ExpNeg(zc))
                   ELSE PPM - PPMSquaredOver(PPM + ExpNeg(-zc))
\* inputs[key] || 0
OrZero(v) == IF v = NaN \/ v = Undefined THEN 0 ELSE v
RECURSIVE WeightedSum(_, _, _)
WeightedSum(inputs, w, keys) ==
    IF keys = {} THEN 0
    ELSE LET k == CHOOSE k \in keys : TRUE
         IN  OrZero(inputs[k]) * w[k] + WeightedSum(inputs, w, keys \ {k})
\* the raw score z of AdaptivePerceptron.predict (stored as lastZ)
predictZ(inputs, type) == Bias(type) + WeightedSum(inputs, Weights(type), DOMAIN inputs)
\* AdaptivePerceptron.predict (stored as lastP)
predict(inputs, type) == sigmoid(predictZ(inputs, type))

(***************************************************************************)
(* Feature extractors of Vhum.  A Point Stream is a sequence of records    *)
(* [x, y, t].                                                              *)
(***************************************************************************)
\* pts[i].t - pts[i-1].t, in milliseconds
Deltas(pts) == [i \in 1..(Len(pts) - 1) |-> pts[i + 1].t - pts[i].t]
\* Math.sqrt(dx*dx + dy*dy) / dt with dt = Math.max(8, delta) / 1000, in units of 1/100 pixel per second
SegmentSpeed(a, b) == DivRound(Hypot100(b.x - a.x, b.y - a.y) * 1000, Max(8, b.t - a.t))
Speeds(pts) == [i \in 1..(Len(pts) - 1) |-> SegmentSpeed(pts[i], pts[i + 1])]
\* the unit (in 1/100 pixel per second) in which the moments of a speed series stay within 32 bits
SpeedUnit(speeds) ==
    LET m == MaxSeq(speeds)
    IN  IF m <= 10000 THEN 1 ELSE IF m <= 100000 THEN 10 ELSE 100
\* the sum of (s[i] - mean)^2
SumSqDev(s, mean) ==
    CHOOSE r \in { SumSeq([i \in 1..Len(v) |-> (v[i] - m) * (v[i] - m)]) :
                      v \in {s}, m \in {mean} } : TRUE
\* Math.sqrt(v) in units of 1/100
Sqrt100(v) == IF v < 200000 THEN Isqrt(v * 10000) ELSE Isqrt(v) * 100
\* ((b - avg) / stdDev)^3 in units of 1/SCALE, stdDev given in units of 1/100
CubedDev(b, avg, std100) ==
    LET r == ((b - avg) * 100000) \div std100
    IN  (((r * r) \div 1000) * r) \div 100
SumCubedDev(s, avg, std100) ==
    CHOOSE r \in { SumSeq([i \in 1..Len(v) |-> CubedDev(v[i], a, d)]) :
                      v \in {s}, a \in {avg}, d \in {std100} } : TRUE

\* Vhum.analyzeSpeed(pts).score, in units of 1/SCALE
analyzeSpeedScore(pts) ==
    IF Len(pts) < 3 THEN 0
    ELSE LET raw == Speeds(pts)
             u == SpeedUnit(raw)
             \* the speeds in units of u/100 pixel per second
             speeds == [i \in 1..Len(raw) |-> DivRound(raw[i], u)]
             n == Len(speeds)
             avg == DivRound(SumSeq(speeds), n)
             max == MaxSeq(speeds)
             variance == SumSqDev(speeds, avg) \div n
             std100 == Sqrt100(variance)
             skewness == IF std100 > 0 THEN SumCubedDev(speeds, avg, std100) \div n ELSE 0
             humanLikeDistribution ==
                 /\ skewness > 3000
                 /\ avg * u > 5000
                 /\ std100 > 20 * avg
                 /\ std100 < 200 * avg
             \* Math.max(avg, 1)
             avg1 == Max(avg * u, 100)
             accelerationPattern ==
                 /\ 2 * max * u > 3 * avg1
                 /\ max * u < 4 * avg1
         IN  IF humanLikeDistribution /\ accelerationPattern
             THEN Min(SCALE, 7000 + (3 * Clamp01(skewness - 3000)) \div 10)
             ELSE Clamp01((avg * u) \div 6)

\* the elements of s greater than bound, in order
SelectGt(s, bound) == SelectSeq(s, LAMBDA v : v > bound)

\* Vhum.countPauses(pts).score, in units of 1/SCALE
countPausesScore(pts) ==
    IF Len(pts) < 3 THEN 0
    ELSE LET pauseThreshold == 80
             pauses == SelectGt(Deltas(pts), pauseThreshold)
             pauseCount == Len(pauses)
         IN  IF pauseCount = 0 THEN 1000
             ELSE LET \* meanPause in units of 1/10 ms, the variance in units of 1/100 ms^2
                      mean10 == (SumSeq(pauses) * 10) \div pauseCount
                      var100 == SumSqDev([i \in 1..pauseCount |-> 10 * pauses[i]], mean10)
                                    \div pauseCount
                      std10 == Isqrt(var100)
                      pauseCV == IF mean10 > 0 THEN (std10 * SCALE) \div mean10 ELSE 0
                      \* dispersion = pauseVariance / (meanPause + 0.1) = var100 / (10 * (mean10 + 1))
                      poissonLike == var100 > 8 * (mean10 + 1) /\ var100 < 30 * (mean10 + 1)
                      naturalPauseTiming == mean10 > 500 /\ mean10 < 5000
                      \* 1 - dispersion / 5
                      oneMinusFifth == IF var100 >= 50 * (mean10 + 1) THEN 0
                                       ELSE SCALE - (var100 * 200) \div (mean10 + 1)
                      score == IF poissonLike /\ naturalPauseTiming /\ pauseCV > 2000
                               THEN Min(SCALE, 6000 + (4 * Clamp01(pauseCV)) \div 10)
                               ELSE Clamp01(Min((pauseCount * SCALE) \div 5, oneMinusFifth))
                  IN  Clamp01(score)

\* |acc| of every element
AbsSeq(s) == [i \in 1..Len(s) |-> Abs(s[i])]

\* Vhum.analyzeAcceleration(pts).score, in units of 1/SCALE
analyzeAccelerationScore(pts, inputType) ==
    IF Len(pts) < 4 THEN 0
    ELSE LET speeds == Speeds(pts)
             dtMs == [i \in 1..(Len(pts) - 1) |-> Max(8, pts[i + 1].t - pts[i].t)]
             \* acc[i] = (speeds[i] - speeds[i-1]) / dts[i], in pixels per second squared
             acc == [k \in 1..(Len(speeds) - 1) |->
                        DivRound((speeds[k + 1] - speeds[k]) * 10, dtMs[k + 1])]
             n == Len(acc)
             mean == SumSeq(AbsSeq(acc)) \div Max(1, n)
             maxAccel == IF n > 0 THEN MaxSeq(AbsSeq(acc)) ELSE 0
             \* the variance is taken in units of u^2 to stay within 32 bits
             u == IF maxAccel <= 10000 THEN 1 ELSE 100
             varU == IF n > 0
                     THEN SumSqDev([k \in 1..n |-> DivRound(acc[k], u)], DivRound(mean, u)) \div n
                     ELSE 0
             stdDev == (Sqrt100(varU) * u) \div 100
             maxAccelThreshold == IF inputType = "touch" THEN 6000 ELSE 5000
             naturalAccel == maxAccel < maxAccelThreshold /\ maxAccel > 50
             \* stdDev / (mean + 0.1) < 3.0
             smoothAccel == 10 * stdDev < 3 * (10 * mean + 1)
             ratio == (stdDev * 10 * SCALE) \div (10 * mean + 1)
         IN  IF naturalAccel /\ smoothAccel
             THEN Min(SCALE, 8000 + (2 * Clamp01((ratio - 5000) \div 2)) \div 10)
             ELSE Clamp01(mean * 5)

(***************************************************************************)
(* Angles, in units of 1/SCALE radian.                                     *)
(***************************************************************************)
PI == 31416
\* a * b in units of 1/SCALE
MulS(a, b) == (a * b) \div SCALE
RECURSIVE TrigTaylor(_, _, _, _)
\* term - term*x^2/((k+1)(k+2)) + ... : the series of cos (k = 0, term = 1) and sin (k = 1, term = x)
TrigTaylor(x, k, term, sign) ==
    IF term = 0 \/ k > 16 THEN 0
    ELSE sign * term + TrigTaylor(x, k + 2, MulS(MulS(term, x), x) \div ((k + 1) * (k + 2)), -sign)
\* Math.cos and Math.sin on [0, PI]
Cos(x) == IF 2 * x > PI THEN -TrigTaylor(PI - x, 0, SCALE, 1) ELSE TrigTaylor(x, 0, SCALE, 1)
Sin(x) == IF 2 * x > PI THEN TrigTaylor(PI - x, 1, PI - x, 1) ELSE TrigTaylor(x, 1, x, 1)
RECURSIVE AngleIter(_, _, _, _)
\* the angle in [lo, hi] whose direction is (dot, cross), cross >= 0, by bisection
AngleIter(dot, cross, lo, hi) ==
    IF hi - lo <= 1 THEN lo
    ELSE LET mid == (lo + hi) \div 2
         IN  IF cross * Cos(mid) - dot * Sin(mid) >= 0
             THEN AngleIter(dot, cross, mid, hi)
             ELSE AngleIter(dot, cross, lo, mid)
\* Math.acos(clamp(dot / (mag1 * mag2))) for the vectors v1, v2: the angle between them
AngleBetween(v1, v2) ==
    LET dot == v1.x * v2.x + v1.y * v2.y
        cross == Abs(v1.x * v2.y - v1.y * v2.x)
    IN  IF cross = 0 THEN (IF dot >= 0 THEN 0 ELSE PI)
        ELSE AngleIter(dot, cross, 0, PI)

RECURSIVE TurnAngles(_, _)
\* the turning angles at pts[i-1], i = 3..Len(pts), skipping zero-length segments
TurnAngles(pts, i) ==
    IF i > Len(pts) THEN << >>
    ELSE LET v1 == [x |-> pts[i - 1].x - pts[i - 2].x, y |-> pts[i - 1].y - pts[i - 2].y]
             v2 == [x |-> pts[i].x - pts[i - 1].x, y |-> pts[i].y - pts[i - 1].y]
         IN  IF (v1.x = 0 /\ v1.y = 0) \/ (v2.x = 0 /\ v2.y = 0)
             THEN TurnAngles(pts, i + 1)
             ELSE << AngleBetween(v1, v2) >> \o TurnAngles(pts, i + 1)
\* the path length, in units of 1/100 pixel
PathLength100(pts) ==
    SumSeq([i \in 1..(Len(pts) - 1) |-> Hypot100(pts[i + 1].x - pts[i].x, pts[i + 1].y - pts[i].y)])

\* Vhum.analyzeCurvature(pts).score, in units of 1/SCALE
analyzeCurvatureScore(pts) ==
    IF Len(pts) < 4 THEN 0
    ELSE LET angles == TurnAngles(pts, 3)
             count == Len(angles)
             avgAngle == IF count > 0 THEN SumSeq(angles) \div count ELSE 0
             \* the variance in units of (1/1000 radian)^2
             angleVariance == IF count > 0
                              THEN SumSqDev([i \in 1..count |-> angles[i] \div 10], avgAngle \div 10)
                                       \div count
                              ELSE 0
             angleStdDev == Isqrt(angleVariance) * 10
             naturalCurvature == avgAngle > 2000 /\ avgAngle < 12000
             smoothCurvature == angleStdDev < avgAngle + 5000
             pathLength == PathLength100(pts)
             euclidean == Hypot100(pts[Len(pts)].x - pts[1].x, pts[Len(pts)].y - pts[1].y)
             straightness == IF euclidean > 0 THEN (euclidean * SCALE) \div pathLength ELSE 0
         IN  IF naturalCurvature /\ smoothCurvature /\ straightness > 7000
             THEN Min(SCALE, 7000 + (3 * Min(SCALE, straightness)) \div 10)
             ELSE Clamp01(straightness \div 2)

\* Math.round(Math.atan2(dy, dx) / (Math.PI / 4)) % 8 for (dx, dy) # (0, 0): one of -4 .. 4
Ang8(dx, dy) ==
    LET ax == Abs(dx)
        ay == Abs(dy)
        \* the sector of (ax, ay) in the first quadrant: tan(PI/8) = sqrt(2) - 1
        sec == IF (ax + ay) * (ax + ay) < 2 * ax * ax THEN 0
               ELSE IF (ax + ay) * (ax + ay) < 2 * ay * ay THEN 2
               ELSE 1
    IN  IF dy >= 0 THEN (IF dx >= 0 \/ sec = 2 THEN sec ELSE 4 - sec)
        ELSE (IF dx >= 0 \/ sec = 2 THEN -sec ELSE sec - 4)
RECURSIVE Directions(_, _)
\* the quantised directions of the segments of length >= 0.5
Directions(pts, i) ==
    IF i > Len(pts) THEN << >>
    ELSE LET dx == pts[i].x - pts[i - 1].x
             dy == pts[i].y - pts[i - 1].y
         IN  IF dx = 0 /\ dy = 0 THEN Directions(pts, i + 1)
             ELSE << Ang8(dx, dy) >> \o Directions(pts, i + 1)
CountOf(s, d) == Cardinality({i \in 1..Len(s) : s[i] = d})
RECURSIVE EntropySum(_, _, _)
\* - sum of p * log2(p) over the bins, p = count / total, in units of 1/SCALE
EntropySum(dirs, bins, total) ==
    IF bins = {} THEN 0
    ELSE LET d == CHOOSE d \in bins : TRUE
             c == CountOf(dirs, d)
         IN  (c * Log2Fx(total, c)) \div total + EntropySum(dirs, bins \ {d}, total)

\* Vhum.analyzeEntropy(pts).normalizedEntropy, in units of 1/SCALE (Undefined: the property is absent)
analyzeEntropyNormalized(pts) ==
    IF Len(pts) < 4 THEN Undefined
    ELSE LET directions == Directions(pts, 2)
             bins == {directions[i] : i \in 1..Len(directions)}
         IN  IF Len(directions) = 0 THEN 0
             ELSE LET entropy == EntropySum(directions, bins, Len(directions))
                      maxEntropy == Log2Fx(Cardinality(bins), 1)
                  IN  IF maxEntropy > 0 THEN (entropy * SCALE) \div maxEntropy ELSE 0

\* whether |dt - rate| < tol, dt in milliseconds, rate and tol in units of 1/100 ms
Near(dt, rate100, tol100) == Abs(100 * dt - rate100) < tol100
\* the refresh periods with the fault of leaving out the 60 Hz and 120 Hz displays
refreshRatesWithout60Hz == << 278, 417, 500, 1000, 2000, 3333, 5000 >>
\* the refreshRates of checkTemporalPrecision, in units of 1/100 ms
refreshRates == << 278, 417, 500, 833, 1000, 1667, 2000, 3333, 5000 >>
\* how many (interval, rate) pairs match: the syncCount of checkTemporalPrecision
syncCount(dts) ==
    Cardinality({ <<i, r>> \in (1..Len(dts)) \X (1..Len(refreshRates)) :
                    \/ Near(dts[i], refreshRates[r], 50)
                    \/ Near(dts[i], 2 * refreshRates[r], 50) })
\* n^2 times the variance of s: n * sum(s[i]^2) - sum(s)^2
NSqVariance(s) == Len(s) * SumSeq([i \in 1..Len(s) |-> s[i] * s[i]]) - SumSeq(s) * SumSeq(s)

\* Vhum.checkTemporalPrecision(pts): [isSuspicious, perfectSync], perfectSync in units of 1/SCALE
checkTemporalPrecision(pts) ==
    IF Len(pts) < 5 THEN [isSuspicious |-> FALSE, perfectSync |-> 0]
    ELSE LET dts == Deltas(pts)
             syncRatio == IF Len(dts) > 0 THEN (syncCount(dts) * SCALE) \div Len(dts) ELSE 0
             \* cv = sqrt(variance) / meanDt > 0.12, that is 625 * n^2 * variance > 9 * sum^2;
             \* with meanDt = 0 the cv is NaN and the comparison is false
             humanLikeVariance == /\ SumSeq(dts) > 0
                                  /\ 625 * NSqVariance(dts) > 9 * SumSeq(dts) * SumSeq(dts)
             suspiciousSync == syncRatio > 6500
         IN  [isSuspicious |-> suspiciousSync /\ ~humanLikeVariance, perfectSync |-> syncRatio]

\* Vhum.analyzeJitter(pts): [isWhiteNoise, cv], cv in units of 1/SCALE
analyzeJitter(pts, inputType) ==
    IF Len(pts) < 5 THEN [isWhiteNoise |-> FALSE, cv |-> 2000]
    ELSE LET dts == [i \in 1..(Len(pts) - 1) |-> Max(8, pts[i + 1].t - pts[i].t)]
             n == Len(dts)
             \* stdDevDt < 1, that is n^2 * varianceDt < n^2
             stdDevDtBelow1 == NSqVariance(dts) < n * n
             raw == Speeds(pts)
             u == SpeedUnit(raw)
             velocities == [i \in 1..Len(raw) |-> DivRound(raw[i], u)]
             \* meanVel = Math.max(0.1, mean), in units of u/100 pixel per second
             meanVel == IF SumSeq(raw) < 10 * n THEN 10 ELSE DivRound(SumSeq(velocities), n)
             varVel == IF SumSeq(raw) < 10 * n
                       THEN SumSqDev(raw, 10) \div n
                       ELSE SumSqDev(velocities, meanVel) \div n
             stdDevVel100 == Sqrt100(varVel)
             cv == (stdDevVel100 * 100) \div meanVel
             \* varVel < 0.01 (pixel per second)^2
             varVelBelow == IF u = 1 THEN varVel < 100 ELSE varVel = 0
             perfectMultiples ==
                 Cardinality({ i \in 1..n : \/ Near(dts[i], 1667, 100)
                                            \/ Near(dts[i], 3333, 100)
                                            \/ Near(dts[i], 5000, 100) })
             syncRatio == (perfectMultiples * SCALE) \div n
             jitterThreshold == IF inputType = "touch" THEN 1200 ELSE 800
             isSuspiciouslySmooth ==
                 \/ cv < jitterThreshold
                 \/ (varVelBelow /\ stdDevDtBelow1)
                 \/ syncRatio > 7500
         IN  [isWhiteNoise |-> isSuspiciouslySmooth, cv |-> cv]

(***************************************************************************)
(* InputTypeDetector                                                       *)
(***************************************************************************)
\* InputTypeDetector._analyzeJitterPattern: [highVariance, precisionPattern]
analyzeJitterPattern(points) ==
    LET \* Math.max(0.1, dt), in units of 1/10 ms
        dts == [i \in 1..(Len(points) - 1) |-> Max(1, 10 * (points[i + 1].t - points[i].t))]
        n == Len(dts)
        dtMean == DivRound(SumSeq(dts), n)
        dtVariance == SumSqDev(dts, dtMean) \div n
        dtCV == (Sqrt100(dtVariance) * 100) \div dtMean
    IN  [highVariance |-> Min(SCALE, (dtCV * 100) \div 15),
         precisionPattern |-> Max(0, SCALE - (dtCV * 100) \div 8)]

\* InputTypeDetector._analyzeDwellCharacteristics: [largeContactArea, pointContact]
analyzeDwellCharacteristics(points) ==
    IF Len(points) < 5 THEN [largeContactArea |-> 5000, pointContact |-> 5000]
    ELSE LET n == Len(points)
             sx == SumSeq([i \in 1..n |-> points[i].x])
             sy == SumSeq([i \in 1..n |-> points[i].y])
             \* maxDist > 15 from the centroid (sx/n, sy/n), times n
             spreadArea == \E i \in 1..n :
                              (n * points[i].x - sx) * (n * points[i].x - sx)
                                + (n * points[i].y - sy) * (n * points[i].y - sy)
                                  > 225 * n * n
         IN  [largeContactArea |-> IF spreadArea THEN 8000 ELSE 2000,
              pointContact |-> IF spreadArea THEN 2000 ELSE 8000]

\* InputTypeDetector._analyzeSpeedProfile: [smoothProfile, sharpProfile, lowPrecision, highPrecision]
analyzeSpeedProfile(points) ==
    IF Len(points) < 3
    THEN [smoothProfile |-> 5000, sharpProfile |-> 5000, lowPrecision |-> 5000, highPrecision |-> 5000]
    ELSE LET raw == Speeds(points)
             u == SpeedUnit(raw)
             speeds == [i \in 1..Len(raw) |-> DivRound(raw[i], u)]
             n == Len(speeds)
             mean == DivRound(SumSeq(speeds), n)
             speedVar == SumSqDev(speeds, mean) \div n
             speedCV == IF mean > 0 THEN (Sqrt100(speedVar) * 100) \div mean ELSE 0
         IN  [smoothProfile |-> Min(SCALE, speedCV * 2),
              sharpProfile |-> Max(0, SCALE - (speedCV * 10) \div 3),
              lowPrecision |-> Min(SCALE, (speedCV * 10) \div 6),
              highPrecision |-> Max(0, SCALE - (speedCV * 10) \div 4)]

\* the comparison of the two scores in InputTypeDetector.detect
detectByScores(points) ==
    LET jitterAnalysis == analyzeJitterPattern(points)
        dwellAnalysis == analyzeDwellCharacteristics(points)
        speedProfile == analyzeSpeedProfile(points)
        \* both scores times 10
        touchScore == 3 * jitterAnalysis.highVariance + 3 * dwellAnalysis.largeContactArea
                        + 2 * speedProfile.smoothProfile + 2 * speedProfile.lowPrecision
        mouseScore == 3 * jitterAnalysis.precisionPattern + 3 * dwellAnalysis.pointContact
                        + 2 * speedProfile.sharpProfile + 2 * speedProfile.highPrecision
    IN  IF touchScore > mouseScore THEN "touch" ELSE "mouse"

\* detect with the fault of a minimum of 5 samples in place of 10
detectFromFive(points, inputSource) ==
    IF inputSource = "touch" THEN "touch"
    ELSE IF inputSource = "mouse" THEN "mouse"
    ELSE IF Len(points) < 5 THEN "unknown"
    ELSE detectByScores(points)

\* InputTypeDetector.detect(points, inputSource)
detect(points, inputSource) ==
    IF inputSource = "touch" THEN "touch"
    ELSE IF inputSource = "mouse" THEN "mouse"
    ELSE IF Len(points) < 10 THEN "unknown"
    ELSE detectByScores(points)

(***************************************************************************)
(* The Vhum engine.                                                        *)
(***************************************************************************)
VARIABLES
    options,          \* this.options: [thresholdMouse, thresholdTouch], in units of 1/PPM
    points,           \* this.points: the Point Stream
    isTracking,       \* this.isTracking
    t_entry,          \* this.t_entry
    t_down,           \* this.t_down
    entry_pos,        \* this.entry_pos
    lastInputSource,  \* this.lastInputSource: "null", "mouse" or "touch"
    inputType,        \* this.inputType
    nn,               \* this.nn: which perceptron is selected, "mouse" or "touch"
    emitted,          \* the finalize runs of the latest step, in order: the Result handed to
                      \* emit('result', ...) with the locals inputs, z and probability behind it
    listeners,        \* this.listeners['result']: the callbacks subscribed, in registration order
    invoked,          \* the callbacks the emit of the latest step invoked, in order
    raised,           \* the exception that left the latest step, "none" when it returned
    moveCounter,      \* the move events handleMove has taken since the press (the engine
                      \* keeps no such field: it is here to state how many events a stream is from)
    now,              \* performance.now()
    \* the fields of the version 2 HumanVerifier, which has isTracking and moveCounter
    \* (and the clock, Date.now()) under the names the engine uses
    dataObject,       \* this.dataObject
    moveEvents,       \* this.moveEvents
    touchEndBlock,    \* this.touchEndBlock
    moveSampleRate,   \* this.moveSampleRate
    sent              \* the data the latest step handed to sendDataToServer, in order

vars == << options, points, isTracking, t_entry, t_down, entry_pos, lastInputSource,
           inputType, nn, emitted, listeners, invoked, raised, moveCounter, now,
           dataObject, moveEvents, touchEndBlock, moveSampleRate, sent >>
\* the fields only the HumanVerifier has
verifier == << dataObject, moveEvents, touchEndBlock, moveSampleRate, sent >>
\* the Gesture Context
context == << points, isTracking, t_entry, t_down, entry_pos >>
\* the perceptron selection of finalize
selection == << inputType, nn >>

OptionKeys == {"thresholdMouse", "thresholdTouch"}
\* the options objects the constructor is called with: none, both thresholds set,
\* and a key passed with the value undefined
OptionsGiven ==
    { [k \in {} |-> Undefined],
      [thresholdMouse |-> 950000, thresholdTouch |-> 400000],
      [k \in {"thresholdMouse"} |-> Undefined] }
\* this.options of the constructor: the defaults, then ...options spread over them
ConstructOptions(given) ==
    LET Get(k) == IF k \in DOMAIN given THEN given[k] ELSE Undefined
        defaults == [thresholdMouse |-> IF Get("thresholdMouse") # Undefined
                                        THEN Get("thresholdMouse") ELSE 680000,
                     thresholdTouch |-> IF Get("thresholdTouch") # Undefined
                                        THEN Get("thresholdTouch") ELSE 620000]
    IN  [k \in OptionKeys |-> IF k \in DOMAIN given THEN given[k] ELSE defaults[k]]

\* this.check.getBoundingClientRect()
targetRect == [left |-> 20, top |-> 30, width |-> 20, height |-> 20]

\* no sample: the null getTouchData returns for an event without changedTouches, and
\* the touchStart or mouseDown an object without the field has
NullData == [x |-> NaN, y |-> NaN, timestamp |-> NaN]
\* the object resetState and the constructor leave in dataObject: {}
EmptyObject == [type |-> "undefined", startTimestamp |-> Undefined, start |-> NullData]

\* the HumanVerifier as its constructor leaves it, with the default sampling rate
Constructed(rate) ==
    /\ dataObject = EmptyObject
    /\ moveEvents = << >>
    /\ touchEndBlock = 0
    /\ moveSampleRate = rate
    /\ sent = << >>

Init ==
    /\ Constructed(DefaultSampleRate)
    /\ options \in {ConstructOptions(g) : g \in OptionsGiven}
    /\ points = << >>
    /\ isTracking = FALSE
    /\ t_entry = 0
    /\ t_down = 0
    /\ entry_pos = [x |-> 0, y |-> 0]
    /\ lastInputSource = "null"
    /\ inputType = "unknown"
    /\ nn = "mouse"
    /\ emitted = << >>
    /\ listeners = << >>
    /\ invoked = << >>
    /\ raised = "none"
    /\ moveCounter = 0
    /\ now = 0

\* probability > threshold, false when the threshold is undefined
GreaterThan(probability, threshold) == threshold # Undefined /\ probability > threshold
\* Math.round(probability * 10000) / 10000, in units of 1/PPM
RoundTo4(probability) == ((probability + 50) \div 100) * 100
\* the decision time with the fault of no floor
decisionTimeUnfloored(tDown, tEntry) == tDown - tEntry
\* Math.max(this.t_down - this.t_entry, 100)
decisionTimeOf(tDown, tEntry) == Max(tDown - tEntry, 100)
\* index of difficulty ID = Math.max(0, Math.log2(2 * D / (W + 1) + 1)), in units of 1/SCALE
FittsID(entryPoint) ==
    LET cx2 == 2 * targetRect.left + targetRect.width
        cy2 == 2 * targetRect.top + targetRect.height
        \* D in units of 1/100 pixel, from twice the offsets to the centre
        D == Hypot100(cx2 - 2 * entryPoint.x, cy2 - 2 * entryPoint.y) \div 2
        W == Min(targetRect.width, targetRect.height)
    IN  Max(0, Log2Fx(2 * D + 100 * (W + 1), 100 * (W + 1)))
\* movementTime < timeExpectedFitts * (0.35 for touch, 0.6 otherwise),
\* timeExpectedFitts = ID / (2.5 for touch, 4.0 otherwise) * 1000
fittsViolationOf(type, movementTime, ID) ==
    IF type = "touch" THEN movementTime * SCALE < ID * 140
                      ELSE movementTime * SCALE < ID * 150
\* the decision entry of the Feature Vector
decisionFeature(type, decisionTime) ==
    IF decisionTime < (IF type = "touch" THEN 220 ELSE 150) THEN SCALE ELSE 0
\* the dwell entry with the fault of flagging the bounds of the window too
dwellFeatureOpenWindow(type, dwellTime) ==
    IF \/ dwellTime <= (IF type = "touch" THEN 100 ELSE 40)
       \/ dwellTime >= (IF type = "touch" THEN 1500 ELSE 1000)
    THEN SCALE ELSE 0
\* the dwell entry of the Feature Vector
dwellFeature(type, dwellTime) ==
    IF \/ dwellTime < (IF type = "touch" THEN 100 ELSE 40)
       \/ dwellTime > (IF type = "touch" THEN 1500 ELSE 1000)
    THEN SCALE ELSE 0
\* const threshold of finalize
thresholdFor(type, opts) == IF type = "touch" THEN opts.thresholdTouch ELSE opts.thresholdMouse

\* which perceptron finalize selects: this.nn = TOUCH ? this.nnTouch : this.nnMouse
Net(type) == IF type = "touch" THEN "touch" ELSE "mouse"

\* the measurements finalize takes, for the resolved modality `type`
Analysis(type) ==
    [dwellTime |-> now - t_down,
     decisionTime |-> decisionTimeOf(t_down, t_entry),
     movementTime |-> now - t_entry,
     ID |-> FittsID(entry_pos),
     jitter |-> analyzeJitter(points, type),
     speedScore |-> analyzeSpeedScore(points),
     accelScore |-> analyzeAccelerationScore(points, type),
     curvatureScore |-> analyzeCurvatureScore(points),
     normalizedEntropy |-> analyzeEntropyNormalized(points),
     pausesScore |-> countPausesScore(points),
     temporalAnalysis |-> checkTemporalPrecision(points)]

\* const temporalViolation of finalize
temporalViolationOf(type, temporalAnalysis) ==
    IF type = "touch"
    THEN temporalAnalysis.isSuspicious /\ temporalAnalysis.perfectSync > 8500
    ELSE temporalAnalysis.isSuspicious

\* const inputs of finalize: the Feature Vector
FeatureVector(type, a) ==
    [fitts |-> IF fittsViolationOf(type, a.movementTime, a.ID) THEN SCALE ELSE 0,
     temporal |-> IF temporalViolationOf(type, a.temporalAnalysis) THEN SCALE ELSE 0,
     decision |-> decisionFeature(type, a.decisionTime),
     jitter |-> IF a.jitter.isWhiteNoise THEN SCALE ELSE 0,
     dwell |-> dwellFeature(type, a.dwellTime),
     speed |-> SCALE - a.speedScore,
     accel |-> SCALE - a.accelScore,
     curvature |-> SCALE - a.curvatureScore,
     entropy |-> IF a.normalizedEntropy = Undefined THEN NaN
                 ELSE Abs(a.normalizedEntropy - 6000),
     pauses |-> SCALE - a.pausesScore]

\* const verdict of finalize: 0 = bot, 1 = human
verdictOf(probability, threshold) == IF GreaterThan(probability, threshold) THEN 0 ELSE 1

\* const result of finalize
ResultOf(type, a, probability, threshold) ==
    [probability |-> RoundTo4(probability),
     verdict |-> verdictOf(probability, threshold),
     inputType |-> type,
     thresholdUsed |-> threshold,
     analysisDetails |->
         [dwell |-> a.dwellTime,
          reaction |-> a.decisionTime,
          fitts |-> a.ID,
          temporal |-> a.temporalAnalysis.perfectSync,
          jitter |-> a.jitter.cv,
          speed |-> a.speedScore,
          accel |-> a.accelScore,
          curvature |-> a.curvatureScore,
          entropy |-> a.normalizedEntropy,
          pauses |-> a.pausesScore]]

\* everything finalize computes, from the Feature Vector and the raw score z on
\* (z and probability are what predict stores as this.nn.lastZ and this.nn.lastP)
Outcome(type, a, inputs, z) ==
    [inputs |-> inputs,
     z |-> z,
     probability |-> sigmoid(z),
     result |-> ResultOf(type, a, sigmoid(z), thresholdFor(type, options))]
\* (each stage is evaluated once and handed on as a value)
Scored(type, a, inputs) ==
    CHOOSE o \in { Outcome(type, a, i, predictZ(i, Net(type))) : i \in {inputs} } : TRUE
Analysed(type, a) ==
    CHOOSE o \in { Scored(type, v, FeatureVector(type, v)) : v \in {a} } : TRUE
\* what Vhum.finalize() computes on the current state
Finalize ==
    CHOOSE o \in { Analysed(t, Analysis(t)) : t \in {detect(points, lastInputSource)} } : TRUE

\* the callbacks a page subscribes with on('result', cb): one that only reads the Result,
\* one that unsubscribes the first while it runs, one that throws
Callbacks == {"show", "dropShow", "faulty"}
\* the callbacks cb hands to off('result', ...) while it runs
Unsubscribes(cb) == IF cb = "dropShow" THEN {"show"} ELSE {}
\* whether cb throws
Throws(cb) == cb = "faulty"
\* this.listeners[event].filter(cb => cb !== callback), for each callback of removed
Without(ls, removed) == SelectSeq(ls, LAMBDA c : c \notin removed)

\* array.forEach(cb => cb(data)) from index i on: array is the array forEach was called
\* on, current is this.listeners[event] as the callbacks run so far have left it (off
\* assigns a new array and leaves the one being walked as it is), calls the callbacks run
RECURSIVE forEach(_, _, _, _)
forEach(array, i, current, calls) ==
    IF i > Len(array) THEN [listeners |-> current, invoked |-> calls, raised |-> "none"]
    ELSE IF Throws(array[i])
    THEN [listeners |-> Without(current, Unsubscribes(array[i])),
          invoked |-> Append(calls, array[i]),
          raised |-> "Error"]
    ELSE forEach(array, i + 1, Without(current, Unsubscribes(array[i])), Append(calls, array[i]))

\* Vhum.emit('result', data): what it leaves of the subscriptions, whom it invoked, what it raised
emit(ls) == forEach(ls, 1, ls, << >>)

\* the effect of emit on the subscriptions, d what emit did
Delivered(d) ==
    /\ listeners' = d.listeners
    /\ invoked' = d.invoked
    /\ raised' = d.raised

\* Commit with the fault of emitting the Result twice
CommitEmitTwice(f) ==
    /\ inputType' = f.result.inputType
    /\ nn' = Net(f.result.inputType)
    /\ t_entry' = 0
    /\ emitted' = << f, f >>
    /\ Delivered(emit(listeners))

\* the assignments and the emit of finalize, f what it computed
Commit(f) ==
    /\ inputType' = f.result.inputType
    /\ nn' = Net(f.result.inputType)
    /\ t_entry' = 0
    /\ emitted' = << f >>
    /\ Delivered(emit(listeners))

\* finalize on an engine whose constructor returned before the perceptrons were built:
\* this.nn becomes undefined, t_entry is reset, and the first call on a missing object
\* (this.check.getBoundingClientRect(), at the latest this.nn.predict) raises a TypeError
finalizeUnbuilt ==
    /\ inputType' = detect(points, lastInputSource)
    /\ nn' = "undefined"
    /\ t_entry' = 0
    /\ emitted' = << >>
    /\ invoked' = << >>
    /\ raised' = "TypeError"
    /\ UNCHANGED listeners

\* Vhum.finalize(): select the perceptron, score, reset t_entry, emit the Result
finalize == IF nn = "undefined" THEN finalizeUnbuilt ELSE \E f \in {Finalize} : Commit(f)

\* addPoint with the fault of putting the sample at the front of the stream
addPointFront(pts, e) == << [x |-> e.x, y |-> e.y, t |-> now] >> \o pts
\* Vhum.addPoint(e): the stream with the sample {x, y, t: performance.now()} pushed
addPoint(pts, e) == Append(pts, [x |-> e.x, y |-> e.y, t |-> now])

\* Vhum.handleEntry(e)
handleEntry(e) ==
    /\ t_entry' = now
    /\ entry_pos' = [x |-> e.x, y |-> e.y]

\* Vhum.handleStart(e)
handleStart(e) ==
    /\ t_down' = now
    /\ isTracking' = TRUE
    /\ points' = addPoint(<< >>, e)
    /\ moveCounter' = 0

\* handleMove with the fault of pushing the sample twice
handleMoveTwice(e) ==
    IF ~isTracking THEN UNCHANGED << points, moveCounter >>
    ELSE points' = addPoint(addPoint(points, e), e) /\ moveCounter' = moveCounter + 1

\* Vhum.handleMove(e)
handleMove(e) ==
    IF ~isTracking THEN UNCHANGED << points, moveCounter >>
    ELSE points' = addPoint(points, e) /\ moveCounter' = moveCounter + 1

\* the step emits no Result: no subscriber runs, the subscriptions stay, nothing is raised
NoEmit ==
    /\ emitted' = << >>
    /\ invoked' = << >>
    /\ raised' = "none"
    /\ UNCHANGED listeners

\* handleEnd with the fault of finalizing only a stream of two samples or more
handleEndNeedsStroke(e) ==
    IF ~isTracking THEN UNCHANGED << isTracking, t_entry, selection >> /\ NoEmit
    ELSE IF Len(points) < 2
    THEN isTracking' = FALSE /\ UNCHANGED << t_entry, selection >> /\ NoEmit
    ELSE /\ isTracking' = FALSE
         /\ finalize

\* Vhum.handleEnd(e)
handleEnd(e) ==
    IF ~isTracking THEN UNCHANGED << isTracking, t_entry, selection >> /\ NoEmit
    ELSE /\ isTracking' = FALSE
         /\ finalize

(***************************************************************************)
(* The DOM listeners registered by Vhum.init(), one action each.  emitted   *)
(* holds what the step itself emitted: a step that runs no finalize leaves *)
(* it empty.                                                               *)
(***************************************************************************)
\* if (!this.lastInputSource) this.lastInputSource = source
setSourceIfUnset(source) ==
    lastInputSource' = IF lastInputSource = "null" THEN source ELSE lastInputSource

\* a listener whose condition fails runs no handler
Ignored == UNCHANGED << verifier, options, context, moveCounter, lastInputSource, selection, now >> /\ NoEmit

mouseenter(e) ==
    /\ lastInputSource' = "mouse"
    /\ handleEntry(e)
    /\ UNCHANGED << verifier, options, points, moveCounter, isTracking, t_down, selection, now >> /\ NoEmit

touchstart(e) ==
    /\ lastInputSource' = "touch"
    /\ handleEntry(e)
    /\ handleStart(e)
    /\ UNCHANGED << verifier, options, selection, now >> /\ NoEmit

pointerdown(e, pointerType) ==
    IF pointerType = "touch"
    THEN /\ setSourceIfUnset("touch")
         /\ UNCHANGED << verifier, options, context, moveCounter, selection, now >> /\ NoEmit
    ELSE IF pointerType = "mouse"
    THEN /\ setSourceIfUnset("mouse")
         /\ handleStart(e)
         /\ UNCHANGED << verifier, options, t_entry, entry_pos, selection, now >> /\ NoEmit
    ELSE Ignored

mousedown(e) ==
    /\ setSourceIfUnset("mouse")
    /\ handleStart(e)
    /\ UNCHANGED << verifier, options, t_entry, entry_pos, selection, now >> /\ NoEmit

mousemove(e) ==
    IF isTracking /\ lastInputSource = "mouse"
    THEN /\ handleMove(e)
         /\ UNCHANGED << verifier, options, isTracking, t_entry, t_down, entry_pos, lastInputSource,
                         selection, now >> /\ NoEmit
    ELSE Ignored

touchmove(e) ==
    IF isTracking /\ lastInputSource = "touch"
    THEN /\ handleMove(e)
         /\ UNCHANGED << verifier, options, isTracking, t_entry, t_down, entry_pos, lastInputSource,
                         selection, now >> /\ NoEmit
    ELSE Ignored

pointermove(e, pointerType) ==
    IF isTracking /\ \/ (pointerType = "touch" /\ lastInputSource = "touch")
                     \/ (pointerType = "mouse" /\ lastInputSource = "mouse")
    THEN /\ handleMove(e)
         /\ UNCHANGED << verifier, options, isTracking, t_entry, t_down, entry_pos, lastInputSource,
                         selection, now >> /\ NoEmit
    ELSE Ignored

mouseup(e) ==
    IF isTracking /\ lastInputSource = "mouse"
    THEN /\ handleEnd(e)
         /\ UNCHANGED << verifier, options, points, moveCounter, t_down, entry_pos, lastInputSource, now >>
    ELSE Ignored

touchend(e) ==
    IF isTracking /\ lastInputSource = "touch"
    THEN /\ handleEnd(e)
         /\ UNCHANGED << verifier, options, points, moveCounter, t_down, entry_pos, lastInputSource, now >>
    ELSE Ignored

pointerup(e) ==
    IF isTracking
    THEN /\ handleEnd(e)
         /\ UNCHANGED << verifier, options, points, moveCounter, t_down, entry_pos, lastInputSource, now >>
    ELSE Ignored

touchcancel(e) ==
    IF isTracking
    THEN /\ handleEnd(e)
         /\ UNCHANGED << verifier, options, points, moveCounter, t_down, entry_pos, lastInputSource, now >>
    ELSE Ignored

\* time passes between two events
Tick(d) ==
    /\ now + d <= MaxNow
    /\ now' = now + d
    /\ UNCHANGED << verifier, options, context, moveCounter, lastInputSource, selection >> /\ NoEmit

\* the bound of the model: a move is taken while the stream holds fewer than MaxPoints samples
MayMove == Len(points) < MaxPoints

Next ==
    \/ \E e \in Positions : mouseenter(e)
    \/ \E e \in Positions : touchstart(e)
    \/ \E e \in Positions, pt \in PointerTypes : pointerdown(e, pt)
    \/ \E e \in Positions : mousedown(e)
    \/ \E e \in Positions : MayMove /\ mousemove(e)
    \/ \E e \in Positions : MayMove /\ touchmove(e)
    \/ \E e \in Positions, pt \in PointerTypes : MayMove /\ pointermove(e, pt)
    \/ \E e \in ReleasePositions : mouseup(e)
    \/ \E e \in ReleasePositions : touchend(e)
    \/ \E e \in ReleasePositions : pointerup(e)
    \/ \E e \in ReleasePositions : touchcancel(e)
    \/ \E d \in TickSteps : Tick(d)

Spec == Init /\ [][Next]_vars

(***************************************************************************)
(* The engine with its public method finalize() also called directly, at   *)
(* any time, by the page that owns the engine.                             *)
(***************************************************************************)
\* vhum.finalize() called from outside the listeners
finalizeCall ==
    /\ finalize
    /\ UNCHANGED << verifier, options, points, moveCounter, isTracking, t_down, entry_pos, lastInputSource, now >>

NextApi == Next \/ finalizeCall

SpecApi == Init /\ [][NextApi]_vars

(***************************************************************************)
(* The subscription point: the page subscribes and unsubscribes callbacks  *)
(* between the events of touch gestures.                                   *)
(***************************************************************************)
\* the page holds at most MaxListeners subscriptions at a time
MaxListeners == 3

\* Vhum.on('result', cb)
on(cb) ==
    /\ listeners' = Append(listeners, cb)
    /\ emitted' = << >>
    /\ invoked' = << >>
    /\ raised' = "none"
    /\ UNCHANGED << verifier, options, context, moveCounter, lastInputSource, selection, now >>

\* Vhum.off('result', cb)
off(cb) ==
    /\ listeners' = Without(listeners, {cb})
    /\ emitted' = << >>
    /\ invoked' = << >>
    /\ raised' = "none"
    /\ UNCHANGED << verifier, options, context, moveCounter, lastInputSource, selection, now >>

NextEmit ==
    \/ \E cb \in Callbacks : Len(listeners) < MaxListeners /\ on(cb)
    \/ \E cb \in Callbacks : off(cb)
    \/ \E e \in ReleasePositions : touchstart(e)
    \/ \E e \in ReleasePositions : touchend(e)

SpecEmit == Init /\ [][NextEmit]_vars

(***************************************************************************)
(* The engine whose container or checkbox was not found: the constructor   *)
(* logs with console.error and returns before it sets the state, builds    *)
(* the perceptrons or calls init(), so no DOM listener exists and the      *)
(* handlers run only when the page calls them.                             *)
(***************************************************************************)
\* the state the constructor leaves at its early return: the fields are undefined, which
\* the handlers read as an engine that is not tracking (!undefined) with no perceptron
MissingInit ==
    /\ Constructed(DefaultSampleRate)
    /\ options = ConstructOptions([k \in {} |-> Undefined])
    /\ points = << >>
    /\ isTracking = FALSE
    /\ t_entry = 0
    /\ t_down = 0
    /\ entry_pos = [x |-> 0, y |-> 0]
    /\ lastInputSource = "null"
    /\ inputType = "unknown"
    /\ nn = "undefined"
    /\ emitted = << >>
    /\ listeners = << >>
    /\ invoked = << >>
    /\ raised = "none"
    /\ moveCounter = 0
    /\ now = 0

\* vhum.handleEntry(e) called by the page
handleEntryCall(e) ==
    /\ handleEntry(e)
    /\ UNCHANGED << verifier, options, points, moveCounter, isTracking, t_down, lastInputSource,
                    selection, now >> /\ NoEmit

\* vhum.handleStart(e) called by the page
handleStartCall(e) ==
    /\ handleStart(e)
    /\ UNCHANGED << verifier, options, t_entry, entry_pos, lastInputSource, selection, now >> /\ NoEmit

\* vhum.handleMove(e) called by the page
handleMoveCall(e) ==
    /\ handleMove(e)
    /\ UNCHANGED << verifier, options, isTracking, t_entry, t_down, entry_pos, lastInputSource,
                    selection, now >> /\ NoEmit

\* vhum.handleEnd(e) called by the page
handleEndCall(e) ==
    /\ handleEnd(e)
    /\ UNCHANGED << verifier, options, points, moveCounter, t_down, entry_pos, lastInputSource, now >>

NextMissing ==
    \/ \E e \in Positions : handleEntryCall(e)
    \/ \E e \in Positions : handleStartCall(e)
    \/ \E e \in Positions : MayMove /\ handleMoveCall(e)
    \/ \E e \in ReleasePositions : handleEndCall(e)
    \/ \E d \in TickSteps : Tick(d)

SpecMissing == MissingInit /\ [][NextMissing]_vars

(***************************************************************************)
(* AdaptivePerceptron.predict on its own: the step of finalize that scores *)
(* a Feature Vector, applied to drawn vectors with either preset.          *)
(***************************************************************************)
\* values an entry of a drawn Feature Vector takes
FeatureLevels == {0, 5000, SCALE}
\* the drawn Feature Vectors: all entries at one level but one of them
PredictInputs ==
    { [f \in FeatureNames |-> IF f = g THEN a ELSE base] :
        g \in FeatureNames, a \in FeatureLevels, base \in FeatureLevels }

\* this.nn = the preset of `type`; const probability = this.nn.predict(inputs)
predictCall(inputs, type) ==
    /\ inputType' = type
    /\ nn' = Net(type)
    /\ emitted' = << Scored(type, Analysis(type), inputs) >>
    /\ invoked' = << >>
    /\ raised' = "none"
    /\ UNCHANGED << verifier, options, context, moveCounter, lastInputSource, listeners, now >>

NextPredict == \E inputs \in PredictInputs, type \in {"mouse", "touch"} : predictCall(inputs, type)

SpecPredict == Init /\ [][NextPredict]_vars

(***************************************************************************)
(* InputTypeDetector.detect on its own: the streams it is handed are drawn *)
(* at the start, the one action applies it as finalize does.               *)
(***************************************************************************)
\* intervals between two samples, in ms: a steady one and one that doubles every third sample
SampleIntervals == {8, 16}
\* horizontal travel between two samples, in pixels
SampleTravels == {0, 1, 6}
\* sample k of a stream: steady (irregular = 0) or with every third interval stretched
SampleAt(k, dt, dx, irregular) ==
    [x |-> (k - 1) * dx,
     y |-> IF irregular = 1 THEN (k % 2) * dx ELSE 0,
     t |-> (k - 1) * dt + irregular * ((k - 1) \div 3) * 5 * dt]
DetectStreams ==
    { [k \in 1..n |-> SampleAt(k, dt, dx, irregular)] :
        n \in 0..MaxDetectLen, dt \in SampleIntervals, dx \in SampleTravels, irregular \in {0, 1} }
\* this.lastInputSource as finalize passes it to detect
InputSources == {"null", "mouse", "touch"}

DetectInit ==
    /\ Constructed(DefaultSampleRate)
    /\ options = ConstructOptions([k \in {} |-> Undefined])
    /\ points \in DetectStreams
    /\ lastInputSource \in InputSources
    /\ isTracking = FALSE
    /\ t_entry = 0
    /\ t_down = 0
    /\ entry_pos = [x |-> 0, y |-> 0]
    /\ inputType = "unknown"
    /\ nn = "mouse"
    /\ emitted = << >>
    /\ listeners = << >>
    /\ invoked = << >>
    /\ raised = "none"
    /\ moveCounter = 0
    /\ now = 0

\* this.inputType = InputTypeDetector.detect(this.points, this.lastInputSource)
Detect ==
    /\ inputType' = detect(points, lastInputSource)
    /\ UNCHANGED << verifier, options, context, moveCounter, lastInputSource, nn, now >> /\ NoEmit

SpecDetect == DetectInit /\ [][Detect]_vars

(***************************************************************************)
(* A release on its own: the gesture under way is drawn at the start, as   *)
(* the press and the moves leave it (through the listeners, or through the *)
(* handlers called by the page, which is how the source stays null), and   *)
(* the one action is the release.  Timestamps are whole milliseconds, so   *)
(* the 16.67 ms frame period is sampled as 17 ms: within the tolerance of  *)
(* 0.5 of both 16.67 and 2 * 8.33 in checkTemporalPrecision, of 1 of 16.67 *)
(* in analyzeJitter.                                                       *)
(***************************************************************************)
\* the most samples of a drawn gesture
MaxFinalizeLen == 60
\* performance.now() at the press of a drawn gesture
PressTime == 1000
\* the frame period of a 60 Hz display, in whole milliseconds
RefreshInterval == 17
\* intervals between two samples of a drawn gesture, in ms
GestureIntervals == {10, 13, RefreshInterval}
\* travel between two samples of a drawn gesture, in pixels along x and y
GestureStrides == { [x |-> 0, y |-> 0], [x |-> 3, y |-> 4], [x |-> 5, y |-> 4] }
\* time from the last sample to the release, in ms, for a gesture of several samples
ReleaseDelays == {0, 500}
\* time from the press to the release, in ms, for a gesture of one sample:
\* around the bounds of the dwell windows of finalize
DwellTimes == {0, 39, 40, 41, 99, 100, 101, 500, 1000, 1001, 1500, 1501}
\* this.t_entry at the release: never entered, entered well before the press, just before it
EntryTimes == {0, PressTime - 500, PressTime - 50}
\* sample k of n of a gesture that ends on the centre of the target: `stride` pixels
\* per sample, `dt` ms apart, every third interval three times as long if irregular
GestureSample(k, n, dt, stride, irregular) ==
    [x |-> targetRect.left + targetRect.width \div 2 + (n - k) * stride.x,
     y |-> targetRect.top + targetRect.height \div 2 + (n - k) * stride.y,
     t |-> PressTime + (k - 1) * dt + irregular * ((k - 1) \div 3) * 2 * dt]
GestureStream(n, dt, stride, irregular) ==
    [k \in 1..n |-> GestureSample(k, n, dt, stride, irregular)]
\* the drawn gestures: the Point Stream and performance.now() at the release
Gestures ==
    { [points |-> GestureStream(1, 10, [x |-> 0, y |-> 0], 0), t_up |-> PressTime + d] : d \in DwellTimes }
    \cup
    { [points |-> GestureStream(n, dt, stride, irregular),
       t_up |-> GestureStream(n, dt, stride, irregular)[n].t + d] :
        n \in {5, MaxFinalizeLen}, dt \in GestureIntervals, stride \in GestureStrides,
        irregular \in {0, 1}, d \in ReleaseDelays }

FinalizeInit ==
    /\ Constructed(DefaultSampleRate)
    /\ options = ConstructOptions([k \in {} |-> Undefined])
    /\ \E g \in Gestures : points = g.points /\ now = g.t_up
    /\ lastInputSource \in InputSources
    /\ isTracking = TRUE
    /\ t_entry \in EntryTimes
    /\ t_down = PressTime
    /\ entry_pos = [x |-> 0, y |-> 0]
    /\ inputType = "unknown"
    /\ nn = "mouse"
    /\ emitted = << >>
    /\ listeners = << >>
    /\ invoked = << >>
    /\ raised = "none"
    /\ moveCounter = Len(points) - 1

NextFinalize == \E e \in ReleasePositions : pointerup(e)

SpecFinalize == FinalizeInit /\ [][NextFinalize]_vars

(***************************************************************************)
(* A release on an engine the page configured with thresholds of its own:  *)
(* the drawn gestures are the ones of a single sample, the thresholds the  *)
(* defaults and values with four decimals next to the scores they get.     *)
(***************************************************************************)
\* the options a page passes to the constructor
ThresholdsGiven ==
    { [k \in {} |-> Undefined],
      [k \in {"thresholdTouch"} |-> 537400],
      [thresholdMouse |-> 950000, thresholdTouch |-> 400000] }

ThresholdInit ==
    /\ Constructed(DefaultSampleRate)
    /\ options \in {ConstructOptions(g) : g \in ThresholdsGiven}
    /\ \E g \in Gestures : Len(g.points) = 1 /\ points = g.points /\ now = g.t_up
    /\ lastInputSource \in InputSources
    /\ isTracking = TRUE
    /\ t_entry \in EntryTimes
    /\ t_down = PressTime
    /\ entry_pos = [x |-> 0, y |-> 0]
    /\ inputType = "unknown"
    /\ nn = "mouse"
    /\ emitted = << >>
    /\ listeners = << >>
    /\ invoked = << >>
    /\ raised = "none"
    /\ moveCounter = 0

SpecThreshold == ThresholdInit /\ [][NextFinalize]_vars

(***************************************************************************)
(* The claims.                                                             *)
(***************************************************************************)
\* a step of one of the listeners that call handleStart and nothing else of the engine
PressStep == \E e \in Positions : mousedown(e) \/ pointerdown(e, "mouse")
\* a step of one of the listeners that call handleEntry
EntryStep == \E e \in Positions : mouseenter(e) \/ touchstart(e)
\* a step of one of the release or cancel listeners
ReleaseStep == \E e \in ReleasePositions : mouseup(e) \/ touchend(e) \/ pointerup(e) \/ touchcancel(e)
\* a step of one of the release or cancel listeners whose condition lets it call handleEnd
ReleaseHandled ==
    \E e \in ReleasePositions :
        \/ pointerup(e)
        \/ touchcancel(e)
        \/ lastInputSource = "mouse" /\ mouseup(e)
        \/ lastInputSource = "touch" /\ touchend(e)
\* the step ends a gesture
Completes == isTracking /\ ~isTracking'

\* C1: a press (mousedown, or pointerdown of a mouse) handled while a gesture is TRACKING
\* leaves the Point Stream and the Gesture Context (tracking flag, press and entry
\* timestamps, entry position) as they were.
C1_PressWhileTrackingIgnored ==
    [][ (isTracking /\ PressStep) => UNCHANGED context ]_vars

\* C2: a Result is emitted by the step that ends a gesture and by no other step, and that
\* step emits exactly one; a release or cancel while not TRACKING emits nothing and leaves
\* every field of the engine unchanged.
C2_OneResultPerGesture ==
    [][ /\ Completes => Len(emitted') = 1
        /\ ~Completes => emitted' = << >>
        /\ (~isTracking /\ ReleaseStep)
              => UNCHANGED << options, context, lastInputSource, selection, now >> ]_vars
\* a gesture of two samples has completed and its one Result is out
C2_Witness == ~isTracking /\ Len(emitted) = 1 /\ Len(points) = 2

\* C3: whenever the engine is not TRACKING the Point Stream is empty (it is empty before the
\* first gesture and is emptied when a gesture completes).
C3_StreamEmptyWhenIdle == ~isTracking => points = << >>

\* C4: a move while not TRACKING leaves the Point Stream, the tracking flag and the
\* timestamps unchanged; a move while TRACKING that its listener hands to handleMove appends
\* exactly one sample, the event's position at the current time, and changes nothing else of
\* the Gesture Context.
C4_MoveAppendsOnlyWhileTracking ==
    [][ \A e \in Positions, pt \in PointerTypes :
          /\ (mousemove(e) \/ touchmove(e) \/ pointermove(e, pt))
                => /\ UNCHANGED << isTracking, t_entry, t_down, entry_pos >>
                   /\ ~isTracking => UNCHANGED points
          /\ ( /\ isTracking
               /\ \/ lastInputSource = "mouse" /\ (mousemove(e) \/ pointermove(e, "mouse"))
                  \/ lastInputSource = "touch" /\ (touchmove(e) \/ pointermove(e, "touch")) )
                => /\ Len(points') = Len(points) + 1
                   /\ SubSeq(points', 1, Len(points)) = points
                   /\ points'[Len(points')] = [x |-> e.x, y |-> e.y, t |-> now] ]_vars
\* a move has been appended to the stream of a live gesture
C4_Witness == isTracking /\ Len(points) = 2 /\ points[2].t > points[1].t

\* a Result finalize can hand out: a probability in [0, 1], a verdict, a modality
ResultProduced(r) ==
    /\ r.probability \in 0..PPM
    /\ r.verdict \in {0, 1}
    /\ r.inputType \in {"mouse", "touch", "unknown"}

\* C5: a release or cancel handed to handleEnd while TRACKING finalizes whatever the number
\* of samples: the engine is not TRACKING afterwards and one Result is produced; a TRACKING
\* engine always holds at least one sample; touchcancel does what pointerup does.
C5_ReleaseAlwaysFinalizes ==
    [][ /\ (isTracking /\ ReleaseHandled)
              => /\ ~isTracking'
                 /\ Len(emitted') = 1
                 /\ ResultProduced(emitted'[1].result)
        /\ isTracking => Len(points) >= 1
        /\ \A e \in ReleasePositions : touchcancel(e) <=> pointerup(e) ]_vars
\* a touch gesture of a single sample has been finalized
C5_Witness ==
    ~isTracking /\ Len(emitted) = 1 /\ Len(points) = 1 /\ lastInputSource = "touch"

\* C6: an entry event (mouseenter, touchstart) handled while a gesture is TRACKING leaves
\* the recorded entry timestamp and entry position unchanged.
C6_EntryWhileTrackingIgnored ==
    [][ (isTracking /\ EntryStep) => UNCHANGED << t_entry, entry_pos >> ]_vars

\* the threshold the engine is configured with for a key: the value passed for it, the
\* default when none is
ConfiguredThreshold(k) ==
    IF options[k] # Undefined THEN options[k]
    ELSE IF k = "thresholdTouch" THEN 620000 ELSE 680000

\* C7: every Result carries the touch threshold when its modality is TOUCH and the pointer
\* threshold otherwise (0.68 and 0.62 when not configured), and its verdict is BOT (0)
\* exactly when the probability is strictly greater than that threshold.
C7_VerdictByThreshold ==
    \A i \in 1..Len(emitted) :
        LET r == emitted[i].result
            threshold == ConfiguredThreshold(IF r.inputType = "touch" THEN "thresholdTouch"
                                                                      ELSE "thresholdMouse")
        IN  /\ r.thresholdUsed = threshold
            /\ r.verdict = 0 <=> emitted[i].probability > threshold

\* C8: detect returns the source when it is mouse or touch; with no source it returns
\* UNKNOWN for fewer than 10 samples and MOUSE or TOUCH for 10 or more.
C8_DetectContract ==
    LET modality == detect(points, lastInputSource)
    IN  /\ lastInputSource \in {"mouse", "touch"} => modality = lastInputSource
        /\ (lastInputSource = "null" /\ Len(points) < 10) => modality = "unknown"
        /\ (lastInputSource = "null" /\ Len(points) >= 10) => modality \in {"mouse", "touch"}
\* detect has resolved a stream of 10 samples or more with no source to TOUCH
C8_Witness == lastInputSource = "null" /\ Len(points) >= 10 /\ inputType = "touch"

\* C9: the decision time of every Result is max(t_down - t_entry, 100) of the timestamps
\* finalize found, and so at least 100.
C9_DecisionTimeFloored ==
    [][ \A i \in 1..Len(emitted') :
          LET reaction == emitted'[i].result.analysisDetails.reaction
          IN  /\ reaction = IF t_down - t_entry > 100 THEN t_down - t_entry ELSE 100
              /\ reaction >= 100 ]_vars
\* a mouse gesture pressed 200 ms after its entry has been finalized
C9_Witness ==
    /\ Len(emitted) = 1
    /\ emitted[1].result.analysisDetails.reaction = 200
    /\ lastInputSource = "mouse"

\* C10: a gesture whose press is at most 100 ms after its entry has a decision feature of 0.
C10_NoGapNotPunished ==
    [][ \A i \in 1..Len(emitted') :
          t_down - t_entry <= 100 => emitted'[i].inputs.decision = 0 ]_vars

\* C11: every entry of the Feature Vector finalize builds is a number in [0, 1], never NaN
\* or undefined, whatever the length of the Point Stream.
C11_FeaturesInUnitRange ==
    \A i \in 1..Len(emitted) :
        \A f \in FeatureNames : emitted[i].inputs[f] \in 0..SCALE

\* C12: a finalize that directly follows a finalize, on the same Point Stream and at the same
\* clock reading, yields the Result the first one yielded.
C12_FinalizeTwiceSameResult ==
    [][ (emitted # << >> /\ finalizeCall) => emitted'[1].result = emitted[1].result ]_vars

\* C13: the emit of a completed gesture invokes every subscribed callback exactly once, in
\* the order of registration, whatever the other callbacks do.
C13_EverySubscriberOnceInOrder ==
    [][ Completes => invoked' = listeners ]_vars

\* C14: a callback is invoked only while subscribed: never after off was called for it,
\* also when an earlier callback of the same emission called that off.
C14_NoCallAfterOff ==
    [][ \A i \in 1..Len(invoked') :
          /\ \E k \in 1..Len(listeners) : listeners[k] = invoked'[i]
          /\ \A j \in 1..(i - 1) : invoked'[i] \notin Unsubscribes(invoked'[j]) ]_vars

\* C15: on an engine whose control or zone was not found at construction no handler call
\* (entry, press, move, release) changes the Gesture Context or the perceptron selection,
\* emits a Result or raises: the failure was raised at construction.
C15_MissingTargetFailsFast ==
    [][ /\ UNCHANGED << context, selection >>
        /\ emitted' = << >>
        /\ raised' = "none" ]_vars

\* the sampling-rate divisor for move events the specification gives as the default
SamplingDivisor == 5

\* C16: while TRACKING the Point Stream holds the press sample and one sample for every
\* SamplingDivisor-th of the move events taken since the press.
C16_EveryNthMoveRetained ==
    isTracking => Len(points) = 1 + moveCounter \div SamplingDivisor

\* C17: every weight of both presets is non-negative, and raising one entry of a scored
\* Feature Vector, the others held, lowers neither the raw score z nor the probability.
C17_ScoreMonotone ==
    /\ \A type \in {"mouse", "touch"}, f \in FeatureNames : Weights(type)[f] >= 0
    /\ \A i \in 1..Len(emitted) :
          \A f \in FeatureNames, v \in FeatureLevels :
              v > emitted[i].inputs[f]
                 => /\ predictZ([emitted[i].inputs EXCEPT ![f] = v], nn) >= emitted[i].z
                    /\ predict([emitted[i].inputs EXCEPT ![f] = v], nn) >= emitted[i].probability
\* a vector with a middling entropy entry has been scored with the touch preset
C17_Witness ==
    /\ Len(emitted) = 1
    /\ nn = "touch"
    /\ emitted[1].inputs.entropy = 5000
    /\ emitted[1].inputs.fitts = SCALE

\* Scenario A: MaxFinalizeLen samples from a pointing device, one frame period apart, moving
\* by the same non-zero step along a straight line that ends on the centre of the target
ScenarioA ==
    /\ lastInputSource = "mouse"
    /\ Len(points) = MaxFinalizeLen
    /\ points[Len(points)].x = targetRect.left + targetRect.width \div 2
    /\ points[Len(points)].y = targetRect.top + targetRect.height \div 2
    /\ points[2].x # points[1].x
    /\ \A k \in 1..(Len(points) - 1) :
          /\ points[k + 1].t - points[k].t = RefreshInterval
          /\ points[k + 1].x - points[k].x = points[2].x - points[1].x
          /\ points[k + 1].y - points[k].y = points[2].y - points[1].y
\* the values of a flag of the Feature Vector
Flags == {0, SCALE}

\* C18: the Result of a Scenario A gesture has the jitter and the temporal feature at 1,
\* a probability above the pointer threshold 0.68 whichever values the fitts, decision
\* and dwell flags take, and the verdict BOT (0)
C18_ScenarioAIsBot ==
    (Len(emitted) = 1 /\ ScenarioA) =>
        /\ emitted[1].inputs.jitter = SCALE
        /\ emitted[1].inputs.temporal = SCALE
        /\ \A f \in Flags, d \in Flags, w \in Flags :
              predict([emitted[1].inputs EXCEPT !.fitts = f, !.decision = d, !.dwell = w],
                      "mouse") > 680000
        /\ emitted[1].result.inputType = "mouse"
        /\ emitted[1].result.thresholdUsed = 680000
        /\ emitted[1].probability > 680000
        /\ emitted[1].result.verdict = 0
C18_Witness ==
    /\ Len(emitted) = 1
    /\ ScenarioA
    /\ emitted[1].inputs.decision = 0
    /\ emitted[1].inputs.fitts = 0
    /\ emitted[1].result.verdict = 0


\* whether a release-minus-press duration lies outside the closed dwell window of a modality
OutsideDwellWindow(type, duration) ==
    IF type = "touch" THEN duration < 100 \/ duration > 1500
                      ELSE duration < 40 \/ duration > 1000

\* C19: the dwell feature of a Result is 1 exactly when the release-minus-press duration
\* lies outside the closed window of the resolved modality, [100,1500] for touch and
\* [40,1000] for mouse or unknown, and 0 otherwise: a duration on a bound is not flagged
C19_DwellOutsideClosedWindow ==
    Len(emitted) = 1 =>
        /\ emitted[1].result.inputType \in {"touch", "mouse", "unknown"}
        /\ emitted[1].result.analysisDetails.dwell = now - t_down
        /\ emitted[1].inputs.dwell =
               IF OutsideDwellWindow(emitted[1].result.inputType, now - t_down)
               THEN SCALE ELSE 0
C19_Witness ==
    /\ Len(emitted) = 1
    /\ emitted[1].result.inputType = "touch"
    /\ now - t_down = 1500
    /\ emitted[1].inputs.dwell = 0

\* C20: the sync ratio a Result reports as analysisDetails.temporal is a fraction of the
\* intervals of the Point Stream, so it lies in [0, 1]
C20_SyncRatioIsFraction ==
    Len(emitted) = 1 => emitted[1].result.analysisDetails.temporal \in 0..SCALE

\* the state a touchstart leaves and touch moves extend: the gesture under way was
\* started by touch (entry and press taken together, the hint set to touch)
TouchStarted ==
    /\ isTracking
    /\ lastInputSource = "touch"
    /\ t_entry = t_down
    /\ points # << >>
    /\ points[1].t = t_down
    /\ entry_pos = [x |-> points[1].x, y |-> points[1].y]
\* a step of a listener of a mouse-type press, move or release
\* (pointerup runs the same code for every pointerType)
MouseTypeStep ==
    \/ \E e \in Positions : mousedown(e) \/ pointerdown(e, "mouse")
    \/ \E e \in Positions : MayMove /\ (mousemove(e) \/ pointermove(e, "mouse"))
    \/ \E e \in ReleasePositions : mouseup(e) \/ pointerup(e)

\* C21: while a touch-started gesture is TRACKING, a mouse-type press, move or release
\* neither resets nor extends the Point Stream nor finalizes the gesture
C21_ForeignModalityIgnored ==
    [][ (TouchStarted /\ MouseTypeStep) =>
            /\ UNCHANGED << points, isTracking >>
            /\ emitted' = << >> ]_vars

\* C22: the step that finalizes a gesture puts every field of the Gesture Context back to
\* its initial value: the Point Stream empty, not TRACKING, the entry and press timestamps
\* 0, the entry position (0, 0), so that the next gesture starts from no data of this one
C22_ContextResetAfterFinalize ==
    [][ Completes =>
            /\ points' = << >>
            /\ ~isTracking'
            /\ t_entry' = 0
            /\ t_down' = 0
            /\ entry_pos' = [x |-> 0, y |-> 0] ]_vars

\* a step of a listener that calls handleStart, for the event e
StartStep(e) == touchstart(e) \/ mousedown(e) \/ pointerdown(e, "mouse")
\* a step of a move listener whose condition lets it call handleMove, for the event e
MoveAccepted(e) ==
    /\ isTracking
    /\ \/ lastInputSource = "mouse" /\ (mousemove(e) \/ pointermove(e, "mouse"))
       \/ lastInputSource = "touch" /\ (touchmove(e) \/ pointermove(e, "touch"))

\* C23: within a gesture the Point Stream is append-only: a press leaves the press sample
\* alone in it, an accepted move appends exactly its sample at the end, no step other than
\* a press changes or removes a sample, and while TRACKING the first sample is the press
\* sample, the length is 1 plus the accepted moves and the timestamps never decrease
C23_StreamAppendOnly ==
    [][ /\ \A e \in Positions :
              /\ StartStep(e) => points' = << [x |-> e.x, y |-> e.y, t |-> now] >>
              /\ MoveAccepted(e) => points' = Append(points, [x |-> e.x, y |-> e.y, t |-> now])
        /\ (\A e \in Positions : ~StartStep(e))
              => /\ Len(points') >= Len(points)
                 /\ SubSeq(points', 1, Len(points)) = points
        /\ isTracking' =>
              /\ Len(points') = 1 + moveCounter'
              /\ points'[1].t = t_down'
              /\ \A i \in 1..(Len(points') - 1) : points'[i].t <= points'[i + 1].t ]_vars
\* a move to another place, later than the press, has been appended to a live gesture
C23_Witness ==
    /\ isTracking
    /\ moveCounter = 1
    /\ Len(points) = 2
    /\ points[2].t > points[1].t
    /\ points[2].x # points[1].x

\* C24: every Result is consistent with itself: its verdict is BOT (0) exactly when the
\* probability it reports is strictly greater than the threshold it reports
C24_VerdictMatchesReported ==
    Len(emitted) = 1 =>
        (emitted[1].result.verdict = 0
            <=> GreaterThan(emitted[1].result.probability, emitted[1].result.thresholdUsed))

\* C25: the modality a Result reports is the modality of the press that started its
\* gesture: a mouse press makes the stored hint mouse and a touch press makes it touch,
\* whatever an earlier gesture left in it, and the Result of the gesture carries the hint
C25_PressCorrectsModality ==
    [][ /\ PressStep => lastInputSource' = "mouse"
        /\ (\E e \in Positions : touchstart(e)) => lastInputSource' = "touch"
        /\ Completes => emitted'[1].result.inputType = lastInputSource ]_vars

(***************************************************************************)
(* The version 2 HumanVerifier.                                            *)
(***************************************************************************)
\* a gesture of the HumanVerifier is followed up to MaxMoves move events
MaxMoves == 6
\* the moveSampleRate a HumanVerifier is constructed with
SampleRates == {2, DefaultSampleRate}
\* touch events: at a position, with or without an entry in changedTouches
TouchEvents == { [x |-> p.x, y |-> p.y, touches |-> c] : p \in ReleasePositions, c \in BOOLEAN }
\* mouse events: at a position, of the primary (0) or the secondary (2) button
MouseEvents == { [x |-> p.x, y |-> p.y, button |-> b] : p \in ReleasePositions, b \in {0, 2} }

\* the fields of the engine, which a HumanVerifier does not have
engine == << options, points, t_entry, t_down, entry_pos, lastInputSource, inputType, nn,
             emitted, listeners, invoked, raised >>

getTouchData(e) ==
    IF ~e.touches THEN NullData ELSE [x |-> e.x, y |-> e.y, timestamp |-> now]

getMouseData(e) == [x |-> e.x, y |-> e.y, timestamp |-> now]

\* a handler that returns at its guard
Returns ==
    /\ sent' = << >>
    /\ UNCHANGED << isTracking, dataObject, moveEvents, moveCounter, touchEndBlock,
                    moveSampleRate, now, engine >>

resetState ==
    /\ dataObject' = EmptyObject
    /\ moveEvents' = << >>
    /\ isTracking' = FALSE

\* the data of a finished gesture, as handleTouchEnd and handleMouseUp complete it
Finished(end) ==
    [type |-> dataObject.type,
     startTimestamp |-> dataObject.startTimestamp,
     endTimestamp |-> now,
     start |-> dataObject.start,
     end |-> end,
     duration |-> now - dataObject.startTimestamp,
     moveEvents |-> moveEvents,
     metrics |-> [totalMoveEvents |-> moveCounter, sampledMoveEvents |-> Len(moveEvents)]]

sendDataToServer(data) == sent' = << data >>

handleTouchStartWhileTracking(e) ==
    /\ touchEndBlock' = 0
    /\ isTracking' = TRUE
    /\ moveEvents' = << >>
    /\ moveCounter' = 0
    /\ dataObject' = [type |-> "TOUCH", startTimestamp |-> now, start |-> getTouchData(e)]
    /\ sent' = << >>
    /\ UNCHANGED << moveSampleRate, now, engine >>

handleTouchStart(e) ==
    IF isTracking THEN Returns
    ELSE /\ touchEndBlock' = 0
         /\ isTracking' = TRUE
         /\ moveEvents' = << >>
         /\ moveCounter' = 0
         /\ dataObject' = [type |-> "TOUCH", startTimestamp |-> now, start |-> getTouchData(e)]
         /\ sent' = << >>
         /\ UNCHANGED << moveSampleRate, now, engine >>

handleTouchMove(e) ==
    IF ~isTracking \/ dataObject.type # "TOUCH" THEN Returns
    ELSE /\ moveCounter' = moveCounter + 1
         /\ moveEvents' = IF moveCounter' % moveSampleRate # 0 \/ getTouchData(e) = NullData
                          THEN moveEvents
                          ELSE Append(moveEvents, getTouchData(e))
         /\ sent' = << >>
         /\ UNCHANGED << isTracking, dataObject, touchEndBlock, moveSampleRate, now, engine >>

handleTouchEnd(e) ==
    IF ~isTracking \/ dataObject.type # "TOUCH" THEN Returns
    ELSE /\ touchEndBlock' = now + BLOCK_DURATION
         /\ sendDataToServer(Finished(IF getTouchData(e) = NullData /\ dataObject.start # NullData
                                      THEN [dataObject.start EXCEPT !.timestamp = now]
                                      ELSE getTouchData(e)))
         /\ resetState
         /\ UNCHANGED << moveCounter, moveSampleRate, now, engine >>

handleMouseDownUnblocked(e) ==
    IF e.button # 0 \/ isTracking THEN Returns
    ELSE /\ isTracking' = TRUE
         /\ moveEvents' = << >>
         /\ moveCounter' = 0
         /\ dataObject' = [type |-> "MOUSE", startTimestamp |-> now, start |-> getMouseData(e)]
         /\ sent' = << >>
         /\ UNCHANGED << touchEndBlock, moveSampleRate, now, engine >>

handleMouseDown(e) ==
    IF now < touchEndBlock THEN Returns
    ELSE IF e.button # 0 \/ isTracking THEN Returns
    ELSE /\ isTracking' = TRUE
         /\ moveEvents' = << >>
         /\ moveCounter' = 0
         /\ dataObject' = [type |-> "MOUSE", startTimestamp |-> now, start |-> getMouseData(e)]
         /\ sent' = << >>
         /\ UNCHANGED << touchEndBlock, moveSampleRate, now, engine >>

handleMouseMoveSamplesFirst(e) ==
    IF ~isTracking \/ dataObject.type # "MOUSE" THEN Returns
    ELSE /\ moveCounter' = moveCounter + 1
         /\ moveEvents' = IF moveCounter % moveSampleRate # 0
                          THEN moveEvents
                          ELSE Append(moveEvents, getMouseData(e))
         /\ sent' = << >>
         /\ UNCHANGED << isTracking, dataObject, touchEndBlock, moveSampleRate, now, engine >>

handleMouseMove(e) ==
    IF ~isTracking \/ dataObject.type # "MOUSE" THEN Returns
    ELSE /\ moveCounter' = moveCounter + 1
         /\ moveEvents' = IF moveCounter' % moveSampleRate # 0
                          THEN moveEvents
                          ELSE Append(moveEvents, getMouseData(e))
         /\ sent' = << >>
         /\ UNCHANGED << isTracking, dataObject, touchEndBlock, moveSampleRate, now, engine >>

handleMouseUp(e) ==
    IF now < touchEndBlock THEN Returns
    ELSE IF ~isTracking \/ dataObject.type # "MOUSE" THEN Returns
    ELSE /\ sendDataToServer(Finished(getMouseData(e)))
         /\ resetState
         /\ UNCHANGED << moveCounter, touchEndBlock, moveSampleRate, now, engine >>

\* the listener of "change" on the checkbox: checked is the state the change leaves
change(checked) ==
    IF checked THEN Returns
    ELSE /\ resetState
         /\ sent' = << >>
         /\ UNCHANGED << moveCounter, touchEndBlock, moveSampleRate, now, engine >>

\* Date.now() advances between two events
Elapse(d) ==
    /\ now + d <= MaxNow
    /\ now' = now + d
    /\ sent' = << >>
    /\ UNCHANGED << isTracking, dataObject, moveEvents, moveCounter, touchEndBlock,
                    moveSampleRate, engine >>

\* the bound of the model: a move event is followed while the gesture has taken fewer
\* than MaxMoves of them
MayCount == moveCounter < MaxMoves

VerifierInit ==
    /\ \E rate \in SampleRates : Constructed(rate)
    /\ isTracking = FALSE
    /\ moveCounter = 0
    /\ now = 0
    /\ options = ConstructOptions([k \in {} |-> Undefined])
    /\ points = << >>
    /\ t_entry = 0
    /\ t_down = 0
    /\ entry_pos = [x |-> 0, y |-> 0]
    /\ lastInputSource = "null"
    /\ inputType = "unknown"
    /\ nn = "mouse"
    /\ emitted = << >>
    /\ listeners = << >>
    /\ invoked = << >>
    /\ raised = "none"

NextVerifier ==
    \/ \E e \in TouchEvents : handleTouchStart(e)
    \/ \E e \in TouchEvents : MayCount /\ handleTouchMove(e)
    \/ \E e \in TouchEvents : handleTouchEnd(e)
    \/ \E e \in MouseEvents : handleMouseDown(e)
    \/ \E e \in MouseEvents : MayCount /\ handleMouseMove(e)
    \/ \E e \in MouseEvents : handleMouseUp(e)
    \/ \E checked \in BOOLEAN : change(checked)
    \/ \E d \in TickSteps : Elapse(d)

SpecVerifier == VerifierInit /\ [][NextVerifier]_vars

\* a gesture of the HumanVerifier is live, and of which modality
LiveTouch == isTracking /\ dataObject.type = "TOUCH"
LiveMouse == isTracking /\ dataObject.type = "MOUSE"

\* the steps of the HumanVerifier by the listener that takes them
TouchStartStep == \E e \in TouchEvents : handleTouchStart(e)
TouchMoveStep == \E e \in TouchEvents : handleTouchMove(e)
TouchEndStep == \E e \in TouchEvents : handleTouchEnd(e)
MouseDownStep == \E e \in MouseEvents : handleMouseDown(e)
MouseMoveStep == \E e \in MouseEvents : handleMouseMove(e)
MouseUpStep == \E e \in MouseEvents : handleMouseUp(e)

\* C26: the HumanVerifier has at most one live gesture, bound to the modality that started
\* it: a touchstart or mousedown while isTracking leaves dataObject, moveEvents and
\* moveCounter as they are, the move and end events of the other modality record no sample
\* and do not end the gesture, and data is handed to sendDataToServer at most once, by the
\* step that ends the gesture and with the type the gesture was started with.
C26_OneGestureOneModality ==
    [][ /\ (isTracking /\ (TouchStartStep \/ MouseDownStep))
                => UNCHANGED << isTracking, dataObject, moveEvents, moveCounter >>
        /\ (LiveTouch /\ (MouseMoveStep \/ MouseUpStep))
                => UNCHANGED << isTracking, dataObject, moveEvents, moveCounter >> /\ sent' = << >>
        /\ (LiveMouse /\ (TouchMoveStep \/ TouchEndStep))
                => UNCHANGED << isTracking, dataObject, moveEvents, moveCounter >> /\ sent' = << >>
        /\ isTracking' => LiveTouch' \/ LiveMouse'
        /\ (isTracking /\ isTracking')
                => /\ dataObject'.type = dataObject.type
                   /\ dataObject'.startTimestamp = dataObject.startTimestamp
        /\ Len(sent') <= 1
        /\ sent' # << >> => /\ isTracking /\ ~isTracking'
                            /\ sent'[1].type = dataObject.type
                            /\ sent'[1].startTimestamp = dataObject.startTimestamp ]_vars

\* a touch gesture that has taken moves, two of them retained: a press or an event of the
\* mouse may arrive now
C26_Witness ==
    /\ LiveTouch
    /\ moveCounter >= 4
    /\ Len(moveEvents) = 2
    /\ now > dataObject.startTimestamp

\* C27: in a mouse gesture of the HumanVerifier every mousemove adds one to moveCounter and
\* no other event changes it, exactly every moveSampleRate-th move is retained, a press
\* that starts a gesture sets both counts to 0, and the metrics handed over at mouseup are
\* totalMoveEvents = k and sampledMoveEvents = floor(k / moveSampleRate) for the k moves
\* the gesture has taken.
C27_SampledIsFloorOfTotal ==
    [][ /\ (~isTracking /\ isTracking') => moveCounter' = 0 /\ moveEvents' = << >>
        /\ (LiveMouse /\ MouseMoveStep)
                => /\ moveCounter' = moveCounter + 1
                   /\ Len(moveEvents') = IF moveCounter' % moveSampleRate = 0
                                         THEN Len(moveEvents) + 1
                                         ELSE Len(moveEvents)
        /\ (LiveMouse /\ LiveMouse' /\ ~MouseMoveStep) => UNCHANGED << moveCounter, moveEvents >>
        /\ LiveMouse' => Len(moveEvents') = moveCounter' \div moveSampleRate
        /\ (LiveMouse /\ MouseUpStep)
                => /\ Len(sent') = 1
                   /\ sent'[1].metrics.totalMoveEvents = moveCounter
                   /\ sent'[1].metrics.sampledMoveEvents = moveCounter \div moveSampleRate
                   /\ Len(sent'[1].moveEvents) = moveCounter \div moveSampleRate ]_vars

\* a mouse gesture of five moves at the sampling rate 2 has been handed over: two retained
C27_Witness ==
    /\ Len(sent) = 1
    /\ sent[1].type = "MOUSE"
    /\ moveSampleRate = 2
    /\ sent[1].metrics = [totalMoveEvents |-> 5, sampledMoveEvents |-> 2]

\* the block handleTouchEnd sets is active
BlockActive == now < touchEndBlock

\* C28: the end of a touch gesture sets the block to BLOCK_DURATION after it and only a
\* touchstart that starts a gesture clears it; a mousedown while the block is active starts
\* no gesture (isTracking and dataObject stay as they are), a mousedown of the primary
\* button at or after the end of the block, or after the block was cleared, with no gesture
\* live starts a MOUSE gesture, and no MOUSE gesture is live while the block is active.
C28_MouseBlockedAfterTouch ==
    [][ /\ (LiveTouch /\ TouchEndStep) => touchEndBlock' = now + BLOCK_DURATION
        /\ (~isTracking /\ TouchStartStep) => touchEndBlock' = 0
        /\ ~((LiveTouch /\ TouchEndStep) \/ (~isTracking /\ TouchStartStep))
                => UNCHANGED touchEndBlock
        /\ (BlockActive /\ MouseDownStep) => UNCHANGED << isTracking, dataObject >>
        /\ \A e \in MouseEvents :
              (~BlockActive /\ ~isTracking /\ e.button = 0 /\ handleMouseDown(e))
                => /\ LiveMouse'
                   /\ dataObject'.startTimestamp = now
        /\ ~(LiveMouse /\ BlockActive)
        /\ ~(LiveMouse' /\ BlockActive') ]_vars

\* 300 ms after a touch gesture ended, with the block it set still in touchEndBlock, a
\* mouse gesture is live: the press arrived as the block ended
C28_Witness ==
    /\ LiveMouse
    /\ touchEndBlock = BLOCK_DURATION
    /\ dataObject.startTimestamp = touchEndBlock
    /\ now = touchEndBlock

\* C28 as stated: every mousedown that arrives with no gesture live and the block over or
\* cleared starts a MOUSE gesture.
C28_EveryPressAfterBlockStarts ==
    [][ (~BlockActive /\ ~isTracking /\ MouseDownStep) => LiveMouse' ]_vars

=============================================================================
